---- MODULE Spec2Model ----
(***************************************************************************)
(* DirectLinkManager (lucidlink_direct_links/direct_link_manager.py).      *)
(*                                                                         *)
(* Strings are sequences of one-character strings.  Python's None is the   *)
(* one-element sequence None, whose element is no character.  Every        *)
(* get_direct_link call is a coroutine; an action runs it from one         *)
(* suspension point (gate acquisition, session.get, asyncio.sleep) to the  *)
(* next.                                                                   *)
(*                                                                         *)
(* The state of a call is its position, its loop index and the value it    *)
(* returned.  The history of a call (its arguments, the requests and       *)
(* sleeps it made, the answers it got, what it logged) is recorded for one *)
(* call, `watched`, which Init picks among all the calls; no action reads  *)
(* a history variable, so what holds of the watched call holds of each.    *)
(*                                                                         *)
(* Spec is the manager with its calls.  FairSpec is the same program under *)
(* a fair event loop and an answering daemon, with no call watched.        *)
(* RelativePathSpec and EncodePathSpec apply _get_relative_path and        *)
(* _encode_path_for_url to every argument up to a bounded length; arg and  *)
(* out hold the arguments and the value returned.                          *)
(***************************************************************************)
EXTENDS Integers, Sequences, FiniteSets, TLC

\* ---------------------------------------------------------------- bounds
NumCalls   == 2
MaxWorkers == 2
MaxRetry   == 2
MaxMountLen == 3      \* length of a mount_point argument
MaxPathLen  == 5      \* length of a path given to _get_relative_path
MaxQuoteLen == 2      \* length of a path given to _encode_path_for_url

Calls == 1..NumCalls

\* ------------------------------------------------------- python values
None == <<"<None>">>

\* a bug: `is not None` in the place of truthiness
TruthyNotNone(s) == s # None

Truthy(s) == s # None /\ s # <<>>

\* ----------------------------------------------------- constructor args
Port          == 8280
MountPointArg == <<"/", "m", "/">>
FilespaceName == <<"f", "s">>
RetryDelay    == 5

RECURSIVE RStrip(_, _)
RStrip(s, ch) ==
    IF s # <<>> /\ s[Len(s)] = ch THEN RStrip(SubSeq(s, 1, Len(s) - 1), ch) ELSE s

\* a bug: one leading character is removed, not all of them
LStripOne(s, ch) == IF s # <<>> /\ Head(s) = ch THEN Tail(s) ELSE s

RECURSIVE LStrip(_, _)
LStrip(s, ch) ==
    IF s # <<>> /\ Head(s) = ch THEN LStrip(Tail(s), ch) ELSE s

StartsWith(s, prefix) ==
    /\ Len(prefix) <= Len(s)
    /\ SubSeq(s, 1, Len(prefix)) = prefix

mount_point == RStrip(MountPointArg, "/")

\* ---------------------------------------------------------- path helpers
SafeChars == {"/", "[", "]", "(", ")", ",", "-", "_", " ", "."}

AlwaysSafe == {"a", "b", "c", "m", "x", "0", "1", "2", "3", "4", "5", "6", "7", "8", "9",
               "_", ".", "-", "~"}

PercentHex(ch) ==
    CASE ch = "%" -> <<"%", "2", "5">>
      [] ch = "?" -> <<"%", "3", "F">>
      [] ch = "&" -> <<"%", "2", "6">>
      [] ch = "#" -> <<"%", "2", "3">>
      [] ch = "+" -> <<"%", "2", "B">>
      [] ch = "/" -> <<"%", "2", "F">>
      [] ch = " " -> <<"%", "2", "0">>
      [] ch = "[" -> <<"%", "5", "B">>
      [] ch = "]" -> <<"%", "5", "D">>
      [] ch = "(" -> <<"%", "2", "8">>
      [] ch = ")" -> <<"%", "2", "9">>
      [] ch = "," -> <<"%", "2", "C">>
      [] ch = ":" -> <<"%", "3", "A">>
      [] ch = "@" -> <<"%", "4", "0">>
      [] ch = "!" -> <<"%", "2", "1">>
      [] ch = "$" -> <<"%", "2", "4">>
      [] ch = "'" -> <<"%", "2", "7">>
      [] ch = "*" -> <<"%", "2", "A">>
      [] ch = ";" -> <<"%", "3", "B">>
      [] ch = "=" -> <<"%", "3", "D">>
      [] OTHER    -> <<ch>>

RECURSIVE Quote(_, _)
Quote(s, safe) ==
    IF s = <<>> THEN <<>>
    ELSE (IF Head(s) \in AlwaysSafe \cup safe THEN <<Head(s)>> ELSE PercentHex(Head(s)))
         \o Quote(Tail(s), safe)

\* a bug: quote() is left with its default safe set
encode_path_for_url_default(path) == Quote(path, {"/"})

encode_path_for_url(path) == Quote(path, SafeChars)

get_relative_path(mp, path) ==
    IF StartsWith(path, mp)
    THEN LStrip(SubSeq(path, Len(mp) + 1, Len(path)), "/")
    ELSE LStrip(path, "/")

\* the two request URLs, kept as their parts
UrlV2(path) == [port |-> Port, endpoint |-> "/fsEntry",
                query |-> encode_path_for_url(get_relative_path(mount_point, path))]

\* a bug: v3 asks the v2 endpoint
UrlV3OnFsEntry(path) == UrlV2(path)

UrlV3(path) == [port |-> Port, endpoint |-> "/fsEntry/direct-link",
                query |-> encode_path_for_url(get_relative_path(mount_point, path))]

DirectLink(fs, id) == <<"l", "u", "c", "i", "d", ":", "/", "/">> \o fs
                      \o <<"/", "f", "i", "l", "e", "/">> \o id

\* ---------------------------------------------------------------- inputs
\* call c resolves the c-th path of this list (cyclically)
Paths    == << <<"/", "m", "/", "a", " ", "b">>, <<"/", "x", "?", "c">>, <<"/", "m", "/", "/", "[", "1", "]">> >>
EntryIds == { None, <<>>, <<"e", "1">> }

FilePath(c) == Paths[((c - 1) % Len(Paths)) + 1]

\* ------------------------------------------------------ daemon behaviour
DaemonId     == <<"a", "b", "c", "1", "2", "3">>
DaemonResult == <<"l", "u", "c", "i", "d", ":", "/", "/", "x">>

Bodies ==
    { [null |-> TRUE,  fields |-> {},               id |-> None,     result |-> None],
      [null |-> FALSE, fields |-> {"other"},        id |-> None,     result |-> None],
      [null |-> FALSE, fields |-> {"id", "result"}, id |-> DaemonId, result |-> DaemonResult] }

NoBody == [null |-> TRUE, fields |-> {}, id |-> None, result |-> None]

\* what one request can meet: an exception of session.get (a transport failure,
\* which is an aiohttp.ClientError, or an exception of another class), an error
\* status, or a 2xx status with a body (200 for an object, 204 for an empty body)
Answers ==
    { [error |-> e, status |-> 0, body |-> NoBody] : e \in {"ClientConnectionError", "TimeoutError"} }
    \cup { [error |-> "-", status |-> s, body |-> NoBody] : s \in {400, 500} }
    \cup { [error |-> "-", status |-> IF b.null THEN 204 ELSE 200, body |-> b] : b \in Bodies }

IsTransportError(ans) == ans.error = "ClientConnectionError"
IsResponse(ans)       == ans.error = "-"
Is2xx(ans)            == IsResponse(ans) /\ ans.status \in 200..299
IsHttpError(ans)      == IsResponse(ans) /\ ans.status \notin 200..299 /\ ans.status # 400

\* ------------------------------------------------------------ exceptions
ClientErrors     == {"ClientConnectionError", "ClientResponseError"}
ExceptionClasses == ClientErrors \cup {"RuntimeError", "TypeError", "TimeoutError"}

\* a bug: an HTTP error status is not counted among the retried failures
IsClientErrorTransportOnly(exc) == exc = "ClientConnectionError"

IsClientError(exc) == exc \in ClientErrors

Return(v)  == [kind |-> "return", val |-> v,    exc |-> "-"]
Raise(exc) == [kind |-> "raise",  val |-> None, exc |-> exc]
NoResult   == [kind |-> "pending", val |-> None, exc |-> "-"]

\* a bug: the outer handler catches aiohttp.ClientError only
OuterExceptClientErrorOnly(exc) ==
    IF exc \in ClientErrors THEN Return(None) ELSE Raise(exc)

\* `except Exception as e: logger.error(...); return None`
OuterExcept(exc) ==
    IF exc \in ExceptionClasses THEN Return(None) ELSE Raise(exc)

\* response.raise_for_status()
RaisesForStatus(status) == status >= 400

\* ------------------------------------------------------------- semaphore
\* asyncio.Semaphore: a counter and a queue of waiters served first come, first
\* served
NoSemaphore  == [made |-> FALSE, value |-> 0, waiters |-> <<>>]
Semaphore(n) == [made |-> TRUE,  value |-> n, waiters |-> <<>>]

\* a bug: the gate never blocks
LockedNever(sem) == FALSE

Locked(sem) == sem.value = 0 \/ sem.waiters # <<>>

Acquired(sem) == [sem EXCEPT !.value = @ - 1]

Enqueued(sem, c) == [sem EXCEPT !.waiters = Append(@, c)]

\* a bug: leaving the gate frees no slot
ReleaseKeepsSlot(sem) == sem

\* release(): the slot goes to the first waiter if there is one
Release(sem) ==
    IF sem.waiters = <<>>
    THEN [sem EXCEPT !.value = @ + 1]
    ELSE [sem EXCEPT !.waiters = Tail(@)]

\* a bug: release() wakes no waiter
WokenByNobody(sem) == {}

WokenBy(sem) == IF sem.waiters = <<>> THEN {} ELSE {Head(sem.waiters)}

\* ------------------------------------------------------------------ state
VARIABLES
    version, max_workers, retry_attempts, filespace,   \* configuration
    request_semaphore, session,                        \* async resources
    pc, attempt, result,                               \* each call
    watched,                                           \* the call whose history is kept
    fsentry_id, started, trace, answers, logged, gate, \* history of the watched call
    arg, out                                           \* a path helper applied on its own

vars == <<version, max_workers, retry_attempts, filespace,
          request_semaphore, session, pc, attempt, result,
          watched, fsentry_id, started, trace, answers, logged, gate,
          arg, out>>

helper == <<arg, out>>

config == <<version, max_workers, retry_attempts, filespace, watched>>

NoArg      == [mount |-> <<>>, path |-> <<>>]
NotApplied == <<"<not applied>">>

\* the manager as its constructor leaves it, and no call made
Constructed ==
    /\ version \in {2, 3}
    /\ max_workers \in 1..MaxWorkers
    /\ retry_attempts \in 0..MaxRetry
    /\ filespace \in {None, FilespaceName}
    /\ request_semaphore = NoSemaphore
    /\ session = "None"
    /\ pc = [c \in Calls |-> "idle"]
    /\ attempt = [c \in Calls |-> 0]
    /\ result = [c \in Calls |-> NoResult]
    /\ fsentry_id = None
    /\ started = "-"
    /\ trace = <<>>
    /\ answers = <<>>
    /\ logged = "-"
    /\ gate = "never"
    /\ arg = NoArg
    /\ out = NotApplied

Init ==
    /\ Constructed
    /\ watched \in Calls

\* ------------------------------------------------------- history events
Request(url) == [ev |-> "request", url |-> url, delay |-> 0]
Sleep(delay) == [ev |-> "sleep", url |-> UrlV3(<<>>), delay |-> delay]

Url(path) == IF version = 2 THEN UrlV2(path) ELSE UrlV3(path)

\* the history variable h after call c has set it to v
Recorded(c, h, v) == IF c = watched THEN v ELSE h

Requests == Cardinality({i \in 1..Len(trace) : trace[i].ev = "request"})
Sleeps   == Cardinality({i \in 1..Len(trace) : trace[i].ev = "sleep"})

\* ------------------------------------------------------------- lifecycle
\* __aenter__ (entered once, by `async with`)
AEnter ==
    /\ session = "None"
    /\ request_semaphore' = Semaphore(max_workers)
    /\ session' = "open"
    /\ UNCHANGED <<config, helper, pc, attempt, result,
                   fsentry_id, started, trace, answers, logged, gate>>

\* __aexit__
AExit ==
    /\ session = "open"
    /\ session' = "closed"
    /\ UNCHANGED <<config, helper, request_semaphore, pc, attempt, result,
                   fsentry_id, started, trace, answers, logged, gate>>

\* ------------------------------------------------------ ends of a call
\* the call returns (or raises) without holding a gate slot
Finish(c, res, msg) ==
    /\ pc' = [pc EXCEPT ![c] = "done"]
    /\ result' = [result EXCEPT ![c] = res]
    /\ logged' = Recorded(c, logged, msg)
    /\ UNCHANGED <<request_semaphore, attempt, trace, gate>>

\* the call leaves `async with self._request_semaphore` and returns (or raises)
Exit(c, sem, res, msg) ==
    /\ request_semaphore' = Release(sem)
    /\ pc' = [x \in Calls |-> IF x = c THEN "done"
                              ELSE IF x \in WokenBy(sem) THEN "acquired" ELSE pc[x]]
    /\ gate' = IF c = watched THEN "released"
               ELSE IF watched \in WokenBy(sem) THEN "held" ELSE gate
    /\ attempt' = [attempt EXCEPT ![c] = 0]
    /\ result' = [result EXCEPT ![c] = res]
    /\ logged' = Recorded(c, logged, msg)
    /\ UNCHANGED trace

\* a bug: the loop makes one attempt more than retry_attempts
BeginAttemptOneMore(c, sem, att, url) ==
    IF att > retry_attempts
    THEN Exit(c, sem, Return(None), "-")
    ELSE IF session = "closed"
    THEN Exit(c, sem, OuterExcept("RuntimeError"), "RuntimeError")
    ELSE /\ request_semaphore' = sem
         /\ pc' = [pc EXCEPT ![c] = "awaiting"]
         /\ attempt' = [attempt EXCEPT ![c] = att]
         /\ gate' = Recorded(c, gate, "held")
         /\ trace' = Recorded(c, trace, Append(trace, Request(url)))
         /\ UNCHANGED <<result, logged>>

\* `for attempt in range(self._retry_attempts)` at index att, up to session.get(url)
BeginAttempt(c, sem, att, url) ==
    IF att >= retry_attempts
    THEN Exit(c, sem, Return(None), "-")
    ELSE IF session = "closed"
    THEN Exit(c, sem, OuterExcept("RuntimeError"), "RuntimeError")
    ELSE /\ request_semaphore' = sem
         /\ pc' = [pc EXCEPT ![c] = "awaiting"]
         /\ attempt' = [attempt EXCEPT ![c] = att]
         /\ gate' = Recorded(c, gate, "held")
         /\ trace' = Recorded(c, trace, Append(trace, Request(url)))
         /\ UNCHANGED <<result, logged>>

\* a bug: a link that another call got is kept and served again
EnterGateCached(c, url) ==
    IF \E d \in Calls : pc[d] = "done" /\ result[d].val # None
    THEN Finish(c, result[CHOOSE d \in Calls : pc[d] = "done" /\ result[d].val # None], "cache")
    ELSE IF ~request_semaphore.made
    THEN Finish(c, OuterExcept("TypeError"), "TypeError")
    ELSE IF Locked(request_semaphore)
    THEN /\ request_semaphore' = Enqueued(request_semaphore, c)
         /\ pc' = [pc EXCEPT ![c] = "waiting"]
         /\ UNCHANGED <<attempt, result, trace, logged, gate>>
    ELSE BeginAttempt(c, Acquired(request_semaphore), 0, url)

\* `async with self._request_semaphore:`
EnterGate(c, url) ==
    IF ~request_semaphore.made
    THEN Finish(c, OuterExcept("TypeError"), "TypeError")
    ELSE IF Locked(request_semaphore)
    THEN /\ request_semaphore' = Enqueued(request_semaphore, c)
         /\ pc' = [pc EXCEPT ![c] = "waiting"]
         /\ UNCHANGED <<attempt, result, trace, logged, gate>>
    ELSE BeginAttempt(c, Acquired(request_semaphore), 0, url)

\* a bug: the last attempt is not recognised, so its failure is slept on too
OnExceptionSleepsAfterLast(c, exc) ==
    IF IsClientError(exc) /\ attempt[c] # retry_attempts
    THEN /\ pc' = [pc EXCEPT ![c] = "sleeping"]
         /\ trace' = Recorded(c, trace, Append(trace, Sleep(RetryDelay)))
         /\ UNCHANGED <<request_semaphore, attempt, result, logged, gate>>
    ELSE Exit(c, request_semaphore, OuterExcept(exc), exc)

\* `except aiohttp.ClientError: if attempt == retry_attempts - 1: raise; sleep`
\* a bug: the slot is given up for the time of the sleep
OnExceptionFreesSlot(c, exc) ==
    IF IsClientError(exc) /\ attempt[c] # retry_attempts - 1
    THEN /\ request_semaphore' = Release(request_semaphore)
         /\ pc' = [x \in Calls |-> IF x = c THEN "sleeping"
                                   ELSE IF x \in WokenBy(request_semaphore) THEN "acquired"
                                   ELSE pc[x]]
         /\ gate' = IF c = watched THEN "released"
                    ELSE IF watched \in WokenBy(request_semaphore) THEN "held" ELSE gate
         /\ trace' = Recorded(c, trace, Append(trace, Sleep(RetryDelay)))
         /\ UNCHANGED <<attempt, result, logged>>
    ELSE Exit(c, request_semaphore, OuterExcept(exc), exc)

\* a bug: the next attempt is made at once, without the sleep
OnExceptionNoSleep(c, exc) ==
    IF IsClientError(exc) /\ attempt[c] # retry_attempts - 1
    THEN BeginAttempt(c, request_semaphore, attempt[c] + 1, Url(FilePath(c)))
    ELSE Exit(c, request_semaphore, OuterExcept(exc), exc)

OnException(c, exc) ==
    IF IsClientError(exc) /\ attempt[c] # retry_attempts - 1
    THEN /\ pc' = [pc EXCEPT ![c] = "sleeping"]
         /\ trace' = Recorded(c, trace, Append(trace, Sleep(RetryDelay)))
         /\ UNCHANGED <<request_semaphore, attempt, result, logged, gate>>
    ELSE Exit(c, request_semaphore, OuterExcept(exc), exc)

\* `return` inside the gate
Return_(c, v, msg) == Exit(c, request_semaphore, Return(v), msg)

\* ------------------------------------------------------------------ v2
\* a bug: the fast path is taken inside the gate
get_direct_link_v2_gated(c, path, id) ==
    IF Truthy(id) /\ ~request_semaphore.made
    THEN Finish(c, OuterExcept("TypeError"), "TypeError")
    ELSE IF Truthy(id) /\ Locked(request_semaphore)
    THEN /\ request_semaphore' = Enqueued(request_semaphore, c)
         /\ pc' = [pc EXCEPT ![c] = "waiting"]
         /\ UNCHANGED <<attempt, result, trace, logged, gate>>
    ELSE IF Truthy(id)
    THEN Exit(c, Acquired(request_semaphore),
              IF Truthy(filespace) THEN Return(DirectLink(filespace, id)) ELSE Return(None),
              "link")
    ELSE EnterGate(c, UrlV2(path))

get_direct_link_v2(c, path, id) ==
    IF Truthy(id)
    THEN IF ~Truthy(filespace)
         THEN Finish(c, Return(None), "filespace_not_set")
         ELSE Finish(c, Return(DirectLink(filespace, id)), "link")
    ELSE EnterGate(c, UrlV2(path))

\* a bug: the link is built from the response's result field
ResponseV2FromResult(c, ans) ==
    IF ans.status = 400 THEN Return_(c, None, "bad_request")
    ELSE IF RaisesForStatus(ans.status) THEN OnException(c, "ClientResponseError")
    ELSE IF ans.body.null \/ ans.body.fields = {} \/ "id" \notin ans.body.fields
    THEN Return_(c, None, "no_id")
    ELSE IF ~Truthy(filespace) THEN Return_(c, None, "filespace_not_set")
    ELSE Return_(c, DirectLink(filespace, ans.body.result), "link")

ResponseV2(c, ans) ==
    IF ans.status = 400 THEN Return_(c, None, "bad_request")
    ELSE IF RaisesForStatus(ans.status) THEN OnException(c, "ClientResponseError")
    ELSE IF ans.body.null \/ ans.body.fields = {} \/ "id" \notin ans.body.fields
    THEN Return_(c, None, "no_id")
    ELSE IF ~Truthy(filespace) THEN Return_(c, None, "filespace_not_set")
    ELSE Return_(c, DirectLink(filespace, ans.body.id), "link")

\* ------------------------------------------------------------------ v3
get_direct_link_v3(c, path) ==
    IF session = "None"
    THEN Finish(c, OuterExcept("RuntimeError"), "RuntimeError")
    ELSE EnterGate(c, UrlV3(path))

\* a bug: status 400 is not singled out, so raise_for_status() sees it
ResponseV3Without400(c, ans) ==
    IF RaisesForStatus(ans.status) THEN OnException(c, "ClientResponseError")
    ELSE IF ans.body.null THEN OnException(c, "TypeError")
    ELSE IF "result" \notin ans.body.fields THEN Return_(c, None, "no_result")
    ELSE Return_(c, ans.body.result, "-")

ResponseV3(c, ans) ==
    IF ans.status = 400 THEN Return_(c, None, "bad_request")
    ELSE IF RaisesForStatus(ans.status) THEN OnException(c, "ClientResponseError")
    ELSE IF ans.body.null THEN OnException(c, "TypeError")
    ELSE IF "result" \notin ans.body.fields THEN Return_(c, None, "no_result")
    ELSE Return_(c, ans.body.result, "-")

\* ---------------------------------------------------------------- actions
\* get_direct_link(file_path, fsentry_id), up to its first suspension; the calls
\* are numbered in the order in which they are issued
Call(c) ==
    /\ pc[c] = "idle"
    /\ \A b \in Calls : b < c => pc[b] # "idle"
    /\ \E id \in EntryIds :
        /\ fsentry_id' = Recorded(c, fsentry_id, id)
        /\ started' = Recorded(c, started, session)
        /\ IF version = 2
           THEN get_direct_link_v2(c, FilePath(c), id)
           ELSE get_direct_link_v3(c, FilePath(c))
    /\ UNCHANGED <<config, helper, session, answers>>

\* a waiter that was handed a slot resumes inside `async with`
Resume(c) ==
    /\ pc[c] = "acquired"
    /\ BeginAttempt(c, request_semaphore, 0, Url(FilePath(c)))
    /\ UNCHANGED <<config, helper, session, fsentry_id, started, answers>>

\* the daemon answers (or the transport fails) the outstanding request
Respond(c) ==
    /\ pc[c] = "awaiting"
    /\ \E ans \in Answers :
        /\ answers' = Recorded(c, answers, Append(answers, ans))
        /\ IF ~IsResponse(ans) THEN OnException(c, ans.error)
           ELSE IF version = 2 THEN ResponseV2(c, ans)
           ELSE ResponseV3(c, ans)
    /\ UNCHANGED <<config, helper, session, fsentry_id, started>>

\* asyncio.sleep(self._retry_delay) is over: next iteration of the loop
WakeUp(c) ==
    /\ pc[c] = "sleeping"
    /\ BeginAttempt(c, request_semaphore, attempt[c] + 1, Url(FilePath(c)))
    /\ UNCHANGED <<config, helper, session, fsentry_id, started, answers>>

Next ==
    \/ AEnter
    \/ AExit
    \/ \E c \in Calls : Call(c)
    \/ \E c \in Calls : Resume(c)
    \/ \E c \in Calls : Respond(c)
    \/ \E c \in Calls : WakeUp(c)

Spec == Init /\ [][Next]_vars

\* ------------------------------------------ the path helpers on their own
SeqsUpTo(S, n) == UNION { [1..k -> S] : k \in 0..n }

MountChars == {"/", "m"}
PathChars  == {"/", "m", "a"}
QuoteChars == SafeChars \cup {"%", "?", "&", "#", "+", ":", "@", "!", "$", "'", "*", ";", "="}
                        \cup {"m", "2", "5", "~"}

\* a manager that has made no call; its mount point and paths are in arg
AtRest ==
    /\ version = 3
    /\ max_workers = 1
    /\ retry_attempts = 0
    /\ filespace = None
    /\ request_semaphore = NoSemaphore
    /\ session = "None"
    /\ pc = [c \in Calls |-> "idle"]
    /\ attempt = [c \in Calls |-> 0]
    /\ result = [c \in Calls |-> NoResult]
    /\ watched = 1
    /\ fsentry_id = None
    /\ started = "-"
    /\ trace = <<>>
    /\ answers = <<>>
    /\ logged = "-"
    /\ gate = "never"

manager == <<version, max_workers, retry_attempts, filespace, request_semaphore, session,
             pc, attempt, result, watched, fsentry_id, started, trace, answers, logged, gate>>

InitRelativePath ==
    /\ AtRest
    /\ arg \in [mount : SeqsUpTo(MountChars, MaxMountLen), path : SeqsUpTo(PathChars, MaxPathLen)]
    /\ out = NotApplied

\* DirectLinkManager(mount_point=arg.mount)._get_relative_path(arg.path)
RelativePath ==
    /\ out = NotApplied
    /\ out' = get_relative_path(RStrip(arg.mount, "/"), arg.path)
    /\ UNCHANGED <<manager, arg>>

RelativePathSpec == InitRelativePath /\ [][RelativePath]_vars

InitEncodePath ==
    /\ AtRest
    /\ arg \in [mount : {<<>>}, path : SeqsUpTo(QuoteChars, MaxQuoteLen)]
    /\ out = NotApplied

\* _encode_path_for_url(arg.path)
EncodePath ==
    /\ out = NotApplied
    /\ out' = encode_path_for_url(arg.path)
    /\ UNCHANGED <<manager, arg>>

EncodePathSpec == InitEncodePath /\ [][EncodePath]_vars

\* ------------------------------------------------------------ type check
TypeOK ==
    /\ session \in {"None", "open", "closed"}
    /\ \A c \in Calls : pc[c] \in {"idle", "waiting", "acquired", "awaiting", "sleeping", "done"}
    /\ \A c \in Calls : attempt[c] \in 0..retry_attempts
    /\ request_semaphore.value \in 0..max_workers
    /\ gate \in {"never", "held", "released"}
    /\ started \in {"-", "None", "open", "closed"}

\* ---------------------------------------------------------------- helpers
Done(c)     == pc[c] = "done"
Outstanding == {c \in Calls : pc[c] = "awaiting"}
LastAnswer  == answers[Len(answers)]
ExpectedUrl == [port |-> Port,
                endpoint |-> IF version = 2 THEN "/fsEntry" ELSE "/fsEntry/direct-link",
                query |-> encode_path_for_url(get_relative_path(mount_point, FilePath(watched)))]

\* request, sleep, request, ..., request: n requests with a sleep of the
\* configured delay between each two
Alternates(tr, n, url) ==
    /\ Len(tr) = (IF n = 0 THEN 0 ELSE 2 * n - 1)
    /\ \A i \in 1..Len(tr) :
          IF i % 2 = 1 THEN tr[i] = Request(url) ELSE tr[i] = Sleep(RetryDelay)

\* lucid://fs/file/{id}, for the filespace name FilespaceName
LucidFsFile(id) ==
    <<"l", "u", "c", "i", "d", ":", "/", "/", "f", "s", "/", "f", "i", "l", "e", "/">> \o id

\* ------------------------------------------------------------------ claims

\* C1: in every reachable state the number of requests issued and not yet
\* answered or failed is at most max_workers.
C1_OutstandingBounded ==
    Cardinality(Outstanding) <= max_workers

\* a call waits for a slot while max_workers requests are outstanding
C1_Witness ==
    /\ Cardinality(Outstanding) = max_workers
    /\ \E c \in Calls : pc[c] = "waiting"

C3_BadRequestNotRetried ==
    ( /\ Len(answers) >= 1
      /\ IsResponse(answers[1])
      /\ answers[1].status = 400 )
    => /\ Done(watched)
       /\ result[watched] = Return(None)
       /\ trace = <<Request(ExpectedUrl)>>
       /\ Len(answers) = 1

\* a 400 ended a call that had attempts left
C3_Witness ==
    /\ Done(watched)
    /\ retry_attempts >= 2
    /\ Len(answers) = 1
    /\ IsResponse(answers[1]) /\ answers[1].status = 400

\* C4: every completed call has returned a link or None; nothing is raised to
\* the caller.
C4_NeverRaises ==
    \A c \in Calls :
        Done(c) => /\ result[c].kind = "return"
                   /\ result[c].val \in {None, DaemonResult}
                                         \cup {DirectLink(filespace, id) : id \in {DaemonId} \cup EntryIds}

\* on an open manager, a call swallowed an exception that is no ClientError
C4_Witness ==
    /\ Done(watched)
    /\ started = "open"
    /\ logged \in ExceptionClasses \ ClientErrors
    /\ result[watched] = Return(None)

\* C5: a call on a manager that was never opened ends in a raised misuse error,
\* never in None or a link, whatever the version and the entry id.
C5_MisuseIsDistinct ==
    started = "None" => (Done(watched) /\ result[watched].kind = "raise")

\* C6: with version 2, a filespace name and an entry id, the call returns
\* lucid://{filespace}/file/{entryId} in the step that starts it, issues no
\* request, takes no gate slot and leaves the gate as it was.
C6_FastPath ==
    [][ ( /\ pc[watched] = "idle" /\ pc'[watched] # "idle"
          /\ version = 2
          /\ filespace = FilespaceName
          /\ Truthy(fsentry_id') )
        => /\ pc'[watched] = "done"
           /\ result'[watched] = Return(LucidFsFile(fsentry_id'))
           /\ trace' = <<>>
           /\ gate' = "never"
           /\ request_semaphore' = request_semaphore ]_vars

\* a fast-path call has completed although an earlier call still holds the
\* only slot of the gate
C6_Witness ==
    \E d \in Calls :
        /\ d < watched
        /\ pc[d] \in {"awaiting", "sleeping"}
        /\ request_semaphore.made /\ request_semaphore.value = 0
        /\ version = 2 /\ filespace = FilespaceName
        /\ Truthy(fsentry_id) /\ started = "open"
        /\ Done(watched) /\ result[watched] = Return(LucidFsFile(fsentry_id))

\* C7 as stated: a response with a status that is neither 2xx nor 400 ends the
\* call at once: None is returned and no request follows that response.
C7_HttpErrorNotRetried ==
    \A i \in 1..Len(answers) :
        IsHttpError(answers[i])
        => /\ Done(watched)
           /\ result[watched] = Return(None)
           /\ Len(answers) = i
           /\ Requests = i

\* C7 as amended: a response with an error status other than 400 is handled as a
\* transport failure is. When it answers the last of the retry_attempts attempts
\* the call returns None and no request follows; when attempts remain the call
\* sleeps the retry delay and, the session still being open, issues the next
\* request.
C7_HttpErrorRetried ==
    \A i \in 1..Len(answers) :
        IsHttpError(answers[i])
        => IF i = retry_attempts
           THEN /\ Done(watched)
                /\ result[watched] = Return(None)
                /\ Len(answers) = i
                /\ Alternates(trace, i, ExpectedUrl)
           ELSE /\ i < retry_attempts
                /\ Len(trace) >= 2 * i
                /\ trace[2 * i] = Sleep(RetryDelay)
                /\ (Len(answers) = i /\ session = "open")
                      => \/ pc[watched] = "sleeping" /\ Len(trace) = 2 * i
                         \/ /\ pc[watched] = "awaiting"
                            /\ Len(trace) = 2 * i + 1
                            /\ trace[2 * i + 1] = Request(ExpectedUrl)

\* the request that followed an error status has been answered
C7_Witness ==
    /\ Len(answers) >= 2
    /\ IsHttpError(answers[1])
    /\ Requests = 2

\* C8: a call made after the session was closed fails: it issues no request
\* and what it returns is no link, whatever the version and the entry id.
C8_ClosedCallsFail ==
    started = "closed"
    => /\ trace = <<>>
       /\ Done(watched) => /\ result[watched] # Return(LucidFsFile(fsentry_id))
                           /\ result[watched] # Return(DaemonResult)
                           /\ result[watched].kind = "raise" \/ result[watched].val = None

\* C9: with version 2 and no filespace name, a call without an entry id on an
\* open manager fails before any request: it issues none, and returns None.
C9_FailsBeforeRequest ==
    ( /\ version = 2
      /\ ~Truthy(filespace)
      /\ ~Truthy(fsentry_id)
      /\ started = "open" )
    => /\ trace = <<>>
       /\ Done(watched) => result[watched] = Return(None)

\* C10: with version 2, a filespace name and no entry id, a 2xx answer to the
\* request GET /fsEntry?path=<encoded relative path> ends the call with no
\* further request: with lucid://{filespace}/file/X when the body has id = X,
\* with None when the body is empty or has no id.
C10_SlowPathV2 ==
    \A i \in 1..Len(answers) :
        ( /\ version = 2
          /\ filespace = FilespaceName
          /\ ~Truthy(fsentry_id)
          /\ Is2xx(answers[i]) )
        => /\ Done(watched)
           /\ Len(answers) = i
           /\ Alternates(trace, i, [port |-> Port, endpoint |-> "/fsEntry",
                                    query |-> ExpectedUrl.query])
           /\ result[watched] = IF ~answers[i].body.null /\ "id" \in answers[i].body.fields
                                THEN Return(LucidFsFile(answers[i].body.id))
                                ELSE Return(None)

\* a v2 call got the link of the id that the daemon answered
C10_Witness ==
    /\ version = 2 /\ ~Truthy(fsentry_id)
    /\ Done(watched)
    /\ Len(answers) >= 1
    /\ Is2xx(LastAnswer)
    /\ LastAnswer.body.id = DaemonId
    /\ result[watched] = Return(LucidFsFile(DaemonId))

\* C11: with version 3 a call on an open manager takes the network path, with
\* an entry id as without: it completes having issued a request unless
\* retry_attempts is 0 or the session is closed, every request it issues is
\* GET /fsEntry/direct-link?path=<encoded relative path>, and a 2xx answer ends
\* the call with no further request: with the body's result as it is when the
\* body has one, with None when it has none.
C11_NetworkPathV3 ==
    ( version = 3 /\ started = "open" )
    => /\ \A i \in 1..Len(trace) :
             trace[i].ev = "request"
             => trace[i] = Request([port |-> Port, endpoint |-> "/fsEntry/direct-link",
                                    query |-> ExpectedUrl.query])
       /\ (Done(watched) /\ retry_attempts >= 1 /\ session = "open")
             => (gate = "released" /\ Requests >= 1)
       /\ \A i \in 1..Len(answers) :
             Is2xx(answers[i])
             => /\ Done(watched)
                /\ Len(answers) = i
                /\ Requests = i
                /\ result[watched] = IF "result" \in answers[i].body.fields
                                     THEN Return(answers[i].body.result)
                                     ELSE Return(None)

\* a v3 call that was given an entry id returned the result of the daemon
C11_Witness ==
    /\ version = 3 /\ started = "open"
    /\ Truthy(fsentry_id)
    /\ Done(watched)
    /\ Requests >= 1
    /\ Is2xx(LastAnswer)
    /\ result[watched] = Return(DaemonResult)

\* k separators in a row
Slashes(k) == [i \in 1..k |-> "/"]

\* s is raw without the separators that end it
IsRStripped(raw, s) ==
    /\ s = <<>> \/ s[Len(s)] # "/"
    /\ \E k \in 0..Len(raw) : raw = s \o Slashes(k)

\* s is raw without the separators that begin it
IsLStripped(raw, s) ==
    /\ s = <<>> \/ s[1] # "/"
    /\ \E k \in 0..Len(raw) : raw = Slashes(k) \o s

\* C12: for every path p and every mount point m, m being the constructor's
\* argument without its trailing separators: when p begins with m,
\* _get_relative_path(p) is what follows m in p without its leading separators;
\* otherwise it is p without its leading separators; in both cases it does not
\* begin with a separator.
C12_RelativePath ==
    out # NotApplied
    => \E m \in SeqsUpTo(MountChars, Len(arg.mount)) :
          /\ IsRStripped(arg.mount, m)
          /\ IF \E rest \in SeqsUpTo(PathChars, Len(arg.path)) : arg.path = m \o rest
             THEN \E rest \in SeqsUpTo(PathChars, Len(arg.path)) :
                      arg.path = m \o rest /\ IsLStripped(rest, out)
             ELSE IsLStripped(arg.path, out)
          /\ out = <<>> \/ out[1] # "/"

\* the mount point was given with a trailing separator, the path lies under it
\* and has two separators after it
C12_Witness ==
    /\ arg.mount = <<"/", "m">> \o <<"/">>
    /\ arg.path = <<"/", "m", "/", "/">> \o out
    /\ out = <<"a">>

\* percent-decoding (RFC 3986, section 2.1): the code point of a character and
\* the value of a hexadecimal digit
CodePoint(ch) ==
    CASE ch = " " -> 32  [] ch = "!" -> 33  [] ch = "#" -> 35  [] ch = "$" -> 36
      [] ch = "%" -> 37  [] ch = "&" -> 38  [] ch = "'" -> 39  [] ch = "(" -> 40
      [] ch = ")" -> 41  [] ch = "*" -> 42  [] ch = "+" -> 43  [] ch = "," -> 44
      [] ch = "-" -> 45  [] ch = "." -> 46  [] ch = "/" -> 47  [] ch = "2" -> 50
      [] ch = "5" -> 53  [] ch = ":" -> 58  [] ch = ";" -> 59  [] ch = "=" -> 61
      [] ch = "?" -> 63  [] ch = "@" -> 64  [] ch = "[" -> 91  [] ch = "]" -> 93
      [] ch = "_" -> 95  [] ch = "m" -> 109 [] ch = "~" -> 126

HexDigits == <<"0", "1", "2", "3", "4", "5", "6", "7", "8", "9", "A", "B", "C", "D", "E", "F">>

HexValue(d) == (CHOOSE i \in 1..Len(HexDigits) : HexDigits[i] = d) - 1

IsEscape(s) ==
    /\ Len(s) >= 3
    /\ s[1] = "%"
    /\ \A i \in 2..3 : \E j \in 1..Len(HexDigits) : HexDigits[j] = s[i]

\* the character that an escape stands for
Unescaped(s) ==
    LET n == 16 * HexValue(s[2]) + HexValue(s[3])
    IN  IF \E ch \in QuoteChars : CodePoint(ch) = n
        THEN CHOOSE ch \in QuoteChars : CodePoint(ch) = n
        ELSE "<other>"

RECURSIVE Unquote(_)
Unquote(s) ==
    IF s = <<>> THEN <<>>
    ELSE IF IsEscape(s) THEN <<Unescaped(s)>> \o Unquote(SubSeq(s, 4, Len(s)))
    ELSE <<Head(s)>> \o Unquote(Tail(s))

\* the characters that are escaped in s
RECURSIVE Escaped(_)
Escaped(s) ==
    IF s = <<>> THEN {}
    ELSE IF IsEscape(s) THEN {Unescaped(s)} \cup Escaped(SubSeq(s, 4, Len(s)))
    ELSE Escaped(Tail(s))

\* the reserved characters of RFC 3986 and the escape character
Reserved == {":", "/", "?", "#", "[", "]", "@", "!", "$", "&", "'", "(", ")", "*", "+", ",", ";", "=", "%"}

\* C13: for every relative path r, percent-decoding _encode_path_for_url(r)
\* gives r back; none of / [ ] ( ) , - _ space . is escaped in it; every other
\* reserved character of r, % ? & # + among them, is escaped in it and does not
\* stand in it unescaped.
C13_EncodeRoundTrip ==
    out # NotApplied
    => /\ Unquote(out) = arg.path
       /\ Escaped(out) \cap {"/", "[", "]", "(", ")", ",", "-", "_", " ", "."} = {}
       /\ \A i \in 1..Len(arg.path) :
             arg.path[i] \in Reserved \ {"/", "[", "]", "(", ")", ","}
             => arg.path[i] \in Escaped(out)
       /\ \A i \in 1..Len(out) :
             out[i] \in Reserved \ {"/", "[", "]", "(", ")", ","}
             => out[i] = "%" /\ IsEscape(SubSeq(out, i, Len(out)))

\* a path with a reserved character and a character of the safe set was encoded
C13_Witness ==
    /\ arg.path = <<"[", "?">>
    /\ out = <<"[", "%", "3", "F">>

\* the calls that hold a slot of the gate
Holders == {c \in Calls : pc[c] \in {"acquired", "awaiting", "sleeping"}}

\* C14: the slots held and the slots free always add up to max_workers, so all
\* of them are free when no call is in flight; a call holds a slot whenever it
\* has a request outstanding or sleeps between two attempts, has taken one
\* before its first request, and holds none once it has completed, whether it
\* returned a link, returned None or ended on an exception.
C14_SlotsConserved ==
    /\ ~request_semaphore.made => Holders = {}
    /\ request_semaphore.made
          => /\ Cardinality(Holders) + request_semaphore.value = max_workers
             /\ (\A c \in Calls : pc[c] \in {"idle", "done"})
                   => /\ request_semaphore.value = max_workers
                      /\ request_semaphore.waiters = <<>>
    /\ gate = "held" <=> watched \in Holders
    /\ Requests >= 1 => gate # "never"
    /\ Done(watched) => gate \in {"never", "released"}

\* every call has completed, one of them on an exception after its second
\* request, and all the slots are free
C14_Witness ==
    /\ \A c \in Calls : Done(c)
    /\ gate = "released"
    /\ logged \in ExceptionClasses
    /\ Requests >= 2
    /\ request_semaphore.value = max_workers

\* progress needs no history: no call is watched
Unwatched == 0

InitUnwatched ==
    /\ Constructed
    /\ watched = Unwatched

\* the event loop runs every coroutine that can run, the daemon answers or
\* fails every request, and every sleep ends
FairSpec ==
    /\ InitUnwatched
    /\ [][Next]_vars
    /\ \A c \in Calls : WF_vars(Resume(c)) /\ WF_vars(Respond(c)) /\ WF_vars(WakeUp(c))

\* C15: under these fairness conditions every call that was started completes,
\* the calls that queue at the gate included; no call waits for ever.
C15_EveryCallCompletes ==
    \A c \in Calls : (pc[c] # "idle") ~> Done(c)

\* a call that had queued at the gate while every slot was taken has been
\* handed the slot of a call that completed after a failed request
C15_Witness ==
    \E c, e \in Calls :
        /\ pc[c] = "acquired"
        /\ request_semaphore.value = 0
        /\ Done(e) /\ result[e] = Return(None)

\* the attempt failed in a way that the loop retries
Failed(ans) == IsTransportError(ans) \/ IsHttpError(ans)

\* C16: the attempts of one call follow one another: the call has at most one
\* request that is not yet answered, and has one exactly while it awaits the
\* answer; what it did is request, sleep, request, ..., each sleep of the retry
\* delay; every request but the last was answered by a failure before the sleep
\* that follows it; while the call sleeps, as many sleeps as requests have begun
\* and every request is answered, so the next request waits for the sleep to end.
C16_AttemptsSequential ==
    /\ Requests - Len(answers) \in {0, 1}
    /\ Requests - Len(answers) = 1 <=> pc[watched] = "awaiting"
    /\ \A i \in 1..Len(trace) :
          IF i % 2 = 1 THEN trace[i] = Request(ExpectedUrl) ELSE trace[i] = Sleep(RetryDelay)
    /\ \A k \in 1..Len(answers) : (k < Requests \/ k <= Sleeps) => Failed(answers[k])
    /\ pc[watched] = "sleeping" => (Sleeps = Requests /\ Len(answers) = Requests)
    /\ pc[watched] = "awaiting" => Sleeps = Requests - 1
    /\ Sleeps <= Len(answers)

\* the second attempt of a call is under way, after the first failed and the
\* sleep ended
C16_Witness ==
    /\ pc[watched] = "awaiting"
    /\ Requests = 2 /\ Sleeps = 1
    /\ Len(answers) = 1 /\ Failed(answers[1])

\* the call is one that goes to the daemon: it is not a v2 call with an entry id
NetworkPath == ~(version = 2 /\ Truthy(fsentry_id))

Busy == {c \in Calls : pc[c] \in {"awaiting", "sleeping"}}

\* C18: a call holds its slot from before its first request until it completes,
\* the sleeps between its attempts included: a call that awaits an answer or
\* sleeps holds a slot, it gives the slot up only in the step that completes it,
\* at most max_workers calls await or sleep, and while max_workers calls do, no
\* other call issues a request.
C18_SlotHeldWhileSleeping ==
    /\ [](/\ pc[watched] \in {"awaiting", "sleeping"} => gate = "held"
          /\ Busy \subseteq Holders
          /\ Cardinality(Busy) <= max_workers)
    /\ [][ /\ (gate = "held" /\ gate' # "held") => (gate' = "released" /\ Done(watched)')
           /\ Cardinality(Busy) = max_workers
                 => \A d \in Calls \ Busy : pc'[d] # "awaiting" ]_vars

\* a call sleeps between two attempts, every slot is taken by calls that sleep
\* or await, and another call queues at the gate
C18_Witness ==
    /\ Cardinality(Busy) = max_workers
    /\ \E c \in Busy : pc[c] = "sleeping"
    /\ \E d \in Calls : pc[d] = "waiting"

\* what a completed call returns, from the configuration, its own entry id and
\* the answers to its own requests
Outcome ==
    IF ~NetworkPath
    THEN IF Truthy(filespace) THEN DirectLink(filespace, fsentry_id) ELSE None
    ELSE IF answers = <<>> \/ ~Is2xx(LastAnswer) THEN None
    ELSE IF version = 3
    THEN IF "result" \in LastAnswer.body.fields THEN LastAnswer.body.result ELSE None
    ELSE IF "id" \in LastAnswer.body.fields /\ Truthy(filespace)
    THEN DirectLink(filespace, LastAnswer.body.id)
    ELSE None

\* C19: what a call returns is a function of the configuration, of its own
\* entry id and of the answers to its own requests, whatever the other calls do
\* and however the calls interleave; every request of a call asks for the call's
\* own path; and nothing is served from a cache: a call that goes to the daemon
\* with retry_attempts >= 1 on a manager that is open from its start to its end
\* has issued a request of its own, and a link it returns comes from a 2xx
\* answer to its own last request.
C19_CallsIndependent ==
    /\ Done(watched) => result[watched] = Return(Outcome)
    /\ \A i \in 1..Len(trace) : trace[i].ev = "request" => trace[i].url = ExpectedUrl
    /\ ( /\ Done(watched) /\ NetworkPath
         /\ retry_attempts >= 1
         /\ started = "open" /\ session = "open" )
       => Requests >= 1
    /\ (Done(watched) /\ NetworkPath /\ result[watched].val # None)
       => (Requests = Len(answers) /\ Requests >= 1 /\ Is2xx(LastAnswer))

\* a call got its link from the daemon while a call that started before it was
\* still in flight
C19_Witness ==
    /\ \E d \in Calls : d < watched /\ d \in Busy
    /\ Done(watched) /\ NetworkPath
    /\ Requests >= 1
    /\ result[watched].val # None

\* C20: with version 2, a call whose entry id is the empty string is handled as
\* a call without entry id: on an open manager the step that starts it takes a
\* slot of the gate or queues it for one, it completes having issued a request
\* unless retry_attempts is 0, each request it issues is GET /fsEntry?path=<encoded
\* relative path>, and a link it returns is lucid://{filespace}/file/X for the
\* id X of the daemon's answer, never the link of the empty id.
C20_EmptyIdIsAbsent ==
    ( version = 2 /\ fsentry_id = <<>> /\ started = "open" )
    => /\ gate = "never" => (pc[watched] = "waiting" /\ trace = <<>>)
       /\ \A i \in 1..Len(trace) :
             trace[i].ev = "request"
             => trace[i].url = [port |-> Port, endpoint |-> "/fsEntry",
                                query |-> ExpectedUrl.query]
       /\ (Done(watched) /\ retry_attempts >= 1 /\ session = "open") => Requests >= 1
       /\ Done(watched)
             => /\ result[watched] # Return(DirectLink(filespace, <<>>))
                /\ result[watched].val # None
                      => /\ Is2xx(LastAnswer)
                         /\ "id" \in LastAnswer.body.fields
                         /\ result[watched] = Return(LucidFsFile(LastAnswer.body.id))

\* a v2 call that was given the empty string as entry id returned the link of
\* the id that the daemon answered
C20_Witness ==
    /\ version = 2 /\ fsentry_id = <<>> /\ started = "open"
    /\ Done(watched)
    /\ gate = "released"
    /\ Requests >= 1
    /\ result[watched] = Return(LucidFsFile(DaemonId))

====
